---- MODULE Spec2Model ----
(***************************************************************************)
(* The management HTTP gateway of azure-iot-manager: the router built by   *)
(* NewRouter, the Alive, Health and NoRoute handlers, the Settings         *)
(* payload and its validation, the management handlers and the process     *)
(* shutdown of InitAndRun.                                                 *)
(*                                                                         *)
(* A request is served in two steps: Receive runs the middleware chain,    *)
(* the route dispatch and the handler up to its backend call (all local    *)
(* to the request); one of the backend actions then returns from that call *)
(* and writes the response.  Requests on different connections interleave  *)
(* at these steps.                                                         *)
(***************************************************************************)
EXTENDS Integers, Sequences, FiniteSets, TLC

\* ---------------------------------------------------------------- bounds
MaxConns == 2          \* connections served concurrently
ShortLen == 22         \* length of the short sample connection string

\* ------------------------------------------------------ program constants
defaultTimeout == 10         \* seconds, the health check's deadline
ShutdownGrace == 5           \* seconds, the context handed to srv.Shutdown
MaxConnectionString == 2048  \* validation.Length(0, 2048)

APIURLInternal == "/api/internal/v1/azure-iot-manager"
APIURLManagement == "/api/management/v1/azure-iot-manager"

\* ---------------------------------------------------------------- strings
(* A Go string, run-length encoded: a sequence of runs of one code point.  *)
(* Repeat(cp, n) is the string of n copies of the code point cp.           *)
Repeat(cp, n) == IF n = 0 THEN << >> ELSE << [cp |-> cp, n |-> n] >>

(* The number of bytes of a code point's UTF-8 encoding.                   *)
Utf8Width(cp) ==
    IF cp < 128 THEN 1 ELSE IF cp < 2048 THEN 2 ELSE IF cp < 65536 THEN 3 ELSE 4

RECURSIVE ByteLen(_)
(* len(s) of Go: the number of bytes of the string.                        *)
ByteLen(s) ==
    IF s = << >> THEN 0
    ELSE Head(s).n * Utf8Width(Head(s).cp) + ByteLen(Tail(s))

RECURSIVE RuneCount(_)
(* The number of characters (code points) of the string.                   *)
RuneCount(s) ==
    IF s = << >> THEN 0 ELSE Head(s).n + RuneCount(Tail(s))

\* ------------------------------------------------------- model.Settings
(* Settings.Validate: ozzo's Length(0, 2048) accepts the empty value and   *)
(* otherwise compares len(s), the byte length, with the maximum.           *)
ValidateOffByOne(s) ==
    s.ConnectionString = << >> \/ ByteLen(s.ConnectionString) < MaxConnectionString

ValidateUnbounded(s) == TRUE

Validate(s) ==
    s.ConnectionString = << >> \/ ByteLen(s.ConnectionString) <= MaxConnectionString

(* validateValidatableValidator.ValidateStruct: a payload type that has a  *)
(* Validate method is validated by it, any other payload passes.           *)
ValidateStruct(validatable, obj) ==
    IF validatable THEN Validate(obj) ELSE TRUE

(* The JSON encoding of a Settings value: connection_string is omitted     *)
(* when empty (omitempty).  A JSON object is modelled by the set of its    *)
(* keys and the value of each key.                                         *)
EncodeSettingsNoOmit(s) ==
    [keys |-> {"connection_string"}, cs |-> s.ConnectionString]

EncodeSettings(s) ==
    [keys |-> IF s.ConnectionString = << >> THEN {} ELSE {"connection_string"},
     cs   |-> s.ConnectionString]

(* Decoding a JSON object into Settings: the struct has the one field      *)
(* connection_string; any other key of the object is dropped, an absent    *)
(* key leaves the zero value, a value that is no string is an error.       *)
DecodeSettings(body) ==
    IF "connection_string" \in body.keys /\ body.csType # "string"
    THEN [ok |-> FALSE, v |-> [ConnectionString |-> << >>]]
    ELSE [ok |-> TRUE,
          v  |-> [ConnectionString |->
                    IF "connection_string" \in body.keys THEN body.cs ELSE << >>]]

\* ------------------------------------------------------------ identities
Tenants == {"t1", "t2"}

NoIdentity == [sub |-> "", tenant |-> "", user |-> FALSE, device |-> FALSE]

(* The Authorization header: absent, or "Bearer <token>" with a token that *)
(* decodes (ok) to the claims or does not.                                 *)
NoAuth == [kind |-> "absent", ok |-> FALSE, claims |-> NoIdentity]
Bearer(id) == [kind |-> "bearer", ok |-> TRUE, claims |-> id]
GarbageToken == [kind |-> "bearer", ok |-> FALSE, claims |-> NoIdentity]

(* identity.Middleware: the identity of the bearer token, or no identity   *)
(* when the header is missing, the token does not decode or it carries no  *)
(* subject.                                                                *)
ExtractIdentity(auth) ==
    IF auth.kind = "bearer" /\ auth.ok /\ auth.claims.sub # ""
    THEN [ok |-> TRUE, idty |-> auth.claims]
    ELSE [ok |-> FALSE, idty |-> NoIdentity]

(* The management handlers' authorization check.                           *)
Authorized(idty) == idty.user = TRUE

\* ---------------------------------------------------------------- router
(* A path is the sequence of its segments, the group prefix being one      *)
(* segment; a trailing slash shows as a last, empty segment.               *)
RoutesWrongHandler ==
    { [method |-> "GET", pattern |-> <<APIURLInternal, "alive">>,
       handler |-> "Alive", group |-> "internal"],
      [method |-> "GET", pattern |-> <<APIURLInternal, "health">>,
       handler |-> "Health", group |-> "internal"],
      [method |-> "GET", pattern |-> <<APIURLManagement, "settings">>,
       handler |-> "GetSettings", group |-> "management"],
      [method |-> "PUT", pattern |-> <<APIURLManagement, "settings">>,
       handler |-> "SetSettings", group |-> "management"],
      [method |-> "GET", pattern |-> <<APIURLManagement, "device", ":id", "twin">>,
       handler |-> "GetDeviceTwin", group |-> "management"],
      [method |-> "PUT", pattern |-> <<APIURLManagement, "device", ":id", "twin">>,
       handler |-> "SetDeviceTwin", group |-> "management"],
      [method |-> "PATCH", pattern |-> <<APIURLManagement, "device", ":id", "twin">>,
       handler |-> "UpdateDeviceTwin", group |-> "management"],
      [method |-> "GET", pattern |-> <<APIURLManagement, "device", ":id", "modules">>,
       handler |-> "Alive", group |-> "management"],
      [method |-> "GET", pattern |-> <<APIURLManagement, "device", ":id">>,
       handler |-> "GetDevice", group |-> "management"] }

(* The routes NewRouter registers.                                         *)
Routes ==
    { [method |-> "GET", pattern |-> <<APIURLInternal, "alive">>,
       handler |-> "Alive", group |-> "internal"],
      [method |-> "GET", pattern |-> <<APIURLInternal, "health">>,
       handler |-> "Health", group |-> "internal"],
      [method |-> "GET", pattern |-> <<APIURLManagement, "settings">>,
       handler |-> "GetSettings", group |-> "management"],
      [method |-> "PUT", pattern |-> <<APIURLManagement, "settings">>,
       handler |-> "SetSettings", group |-> "management"],
      [method |-> "GET", pattern |-> <<APIURLManagement, "device", ":id", "twin">>,
       handler |-> "GetDeviceTwin", group |-> "management"],
      [method |-> "PUT", pattern |-> <<APIURLManagement, "device", ":id", "twin">>,
       handler |-> "SetDeviceTwin", group |-> "management"],
      [method |-> "PATCH", pattern |-> <<APIURLManagement, "device", ":id", "twin">>,
       handler |-> "UpdateDeviceTwin", group |-> "management"],
      [method |-> "GET", pattern |-> <<APIURLManagement, "device", ":id", "modules">>,
       handler |-> "GetDeviceModules", group |-> "management"],
      [method |-> "GET", pattern |-> <<APIURLManagement, "device", ":id">>,
       handler |-> "GetDevice", group |-> "management"] }

(* The middleware of a route group, after the router-wide access log and   *)
(* request id: the management group adds identity.Middleware.              *)
GroupMiddlewareNone(group) == {}

GroupMiddleware(group) == IF group = "management" THEN {"identity"} ELSE {}

(* gin.New(): the engine redirects a request whose path is a registered    *)
(* route's plus a trailing slash, and does not report a known path with    *)
(* another method as 405.                                                  *)
RedirectTrailingSlash == TRUE

(* A route pattern matches a path of the same length segment by segment;   *)
(* the parameter :id matches any non-empty segment.                        *)
Match(pattern, path) ==
    /\ Len(pattern) = Len(path)
    /\ \A i \in 1..Len(path) :
          \/ pattern[i] = path[i]
          \/ pattern[i] = ":id" /\ path[i] # ""

Matching(method, path) ==
    {rt \in Routes : rt.method = method /\ Match(rt.pattern, path)}

(* Whether the path without its trailing slash is a route of the method.   *)
TrailingSlashOf(method, path) ==
    /\ Len(path) > 1
    /\ path[Len(path)] = ""
    /\ Matching(method, SubSeq(path, 1, Len(path) - 1)) # {}

(* The engine's dispatch of a request: to the handler of the matching      *)
(* route, to a redirect to the path without its trailing slash, or to the  *)
(* NoRoute handler.                                                        *)
Dispatch(method, path) ==
    IF Matching(method, path) # {}
    THEN LET rt == CHOOSE x \in Matching(method, path) : TRUE
         IN  [kind |-> "route", handler |-> rt.handler, group |-> rt.group]
    ELSE IF RedirectTrailingSlash /\ TrailingSlashOf(method, path)
    THEN [kind |-> "redirect", handler |-> "", group |-> ""]
    ELSE [kind |-> "noroute", handler |-> "NoRoute", group |-> ""]

\* ------------------------------------------------------------- responses
NoResp ==
    [status |-> 0, body |-> "none", keys |-> {}, error |-> "",
     request_id |-> "", cs |-> << >>, location |-> << >>]

(* A response of a status line and no body.                                *)
WriteHeader(status) == [NoResp EXCEPT !.status = status]

(* rest.Error rendered as JSON: {error, request_id}; request_id is omitted *)
(* when empty.                                                             *)
RenderError(status, msg, rid) ==
    [NoResp EXCEPT !.status = status, !.body = "json",
                   !.keys = IF rid = "" THEN {"error"} ELSE {"error", "request_id"},
                   !.error = msg, !.request_id = rid]

(* Health's failure body, gin.H{"error": err.Error()}.                     *)
RenderHealthError(status, msg) ==
    [NoResp EXCEPT !.status = status, !.body = "json", !.keys = {"error"},
                   !.error = msg]

(* A Settings value rendered as the JSON body of a 200.                    *)
RenderSettings(s) ==
    [NoResp EXCEPT !.status = 200, !.body = "json",
                   !.keys = EncodeSettings(s).keys, !.cs = EncodeSettings(s).cs]

(* A device operation's result, an opaque JSON document, as a 200.         *)
RenderJSON(status) == [NoResp EXCEPT !.status = status, !.body = "json"]

(* The engine's redirect to the path without its trailing slash: 301 for   *)
(* GET, 307 for any other method.                                          *)
RedirectTo(method, path) ==
    [NoResp EXCEPT !.status = IF method = "GET" THEN 301 ELSE 307,
                   !.location = SubSeq(path, 1, Len(path) - 1)]

\* -------------------------------------------------------------- requests
NoBody ==
    [kind |-> "absent", keys |-> {}, cs |-> << >>, csType |-> "string",
     tenant_id |-> ""]
MalformedBody == [NoBody EXCEPT !.kind = "malformed"]
(* The JSON object {"connection_string": s}.                               *)
SettingsBody(s) ==
    [NoBody EXCEPT !.kind = "object", !.keys = {"connection_string"}, !.cs = s]

NoReq ==
    [method |-> "", path |-> << >>, rid |-> "", auth |-> NoAuth, body |-> NoBody]

ZeroSettings == [ConnectionString |-> << >>]

NoCall ==
    [op |-> "none", idty |-> NoIdentity, dev |-> "", settings |-> ZeroSettings]

(* A connection with no request on it.                                     *)
IdleConn ==
    [pc |-> "idle", req |-> NoReq, rid |-> "", handler |-> "",
     steps |-> << >>, idty |-> NoIdentity, call |-> NoCall, calls |-> << >>,
     elapsed |-> 0,
     ctx |-> "none", err |-> "", resp |-> NoResp,
     seen |-> [set |-> FALSE, v |-> ZeroSettings], atSignal |-> FALSE]

VARIABLES
    conns,    \* the request on each connection and how far it has got
    store,    \* the backend's stored Settings of each tenant
    lastPut,  \* per tenant, the value of the last PUT /settings answered 204
    srv,      \* "running", "draining" (Shutdown called), "exited", "killed"
    quit,     \* the signal received on the quit channel, "" when none
    grace     \* seconds since Shutdown was called

vars == <<conns, store, lastPut, srv, quit, grace>>

Conns == 1..MaxConns

(* requestid.Middleware: the inbound correlation header when the request   *)
(* has one, else a generated id.                                           *)
GeneratedIds == {"generated-1", "generated-2"}
RequestId(r) == IF r.rid # "" THEN {r.rid} ELSE GeneratedIds

ErrMissingUserAuthentication == "missing user authentication"

(* The handler has written its response.                                   *)
Respond(b, resp) == [b EXCEPT !.pc = "done", !.resp = resp]

(* The handler calls the backend operation op and waits for its return.    *)
Invoke(b, op, settings) ==
    [b EXCEPT !.pc = "backend",
              !.call = [op |-> op, idty |-> b.idty,
                        dev |-> IF Len(b.req.path) >= 3 /\ b.req.path[2] = "device"
                                THEN b.req.path[3] ELSE "",
                        settings |-> settings],
              !.calls = Append(@, op),
              !.ctx = IF op = "HealthCheck" THEN "active" ELSE "none"]

(* The request has passed the stage s of its chain.                        *)
Step(b, s) == [b EXCEPT !.steps = Append(@, s)]

(* Alive: 204, no backend call.                                            *)
Alive(b) == Respond(b, WriteHeader(204))

(* Health, up to its call of HealthCheck under the timeout context.        *)
Health(b) == Invoke(b, "HealthCheck", ZeroSettings)

(* NoRoute: 404 "not found" with the request id of the context.            *)
NoRouteNoRequestId(b) == Respond(b, RenderError(404, "not found", ""))

NoRoute(b) == Respond(b, RenderError(404, "not found", b.rid))

(* Binding the body of PUT /settings: the JSON is decoded into Settings    *)
(* and the value validated by the registered validator.                    *)
BindSettings(body) ==
    IF body.kind # "object" THEN [ok |-> FALSE, v |-> ZeroSettings]
    ELSE LET d == DecodeSettings(body)
         IN  [ok |-> d.ok /\ ValidateStruct(TRUE, d.v), v |-> d.v]

(* The authorization check of every management handler: 403 unless the    *)
(* identity is a user's.                                                   *)
Forbidden(b) == Respond(b, RenderError(403, ErrMissingUserAuthentication, b.rid))

(* A management handler, up to its backend call: authorize, then bind and  *)
(* validate the payload of a write, then call the backend.                 *)
GetSettings(b) ==
    LET a == Step(b, "authorize")
    IN  IF ~Authorized(a.idty) THEN Forbidden(a)
        ELSE Invoke(a, "GetSettings", ZeroSettings)

SetSettings(b) ==
    LET a == Step(b, "authorize")
        v == Step(a, "bind")
    IN  IF ~Authorized(a.idty) THEN Forbidden(a)
        ELSE IF ~BindSettings(b.req.body).ok
        THEN Respond(v, RenderError(400, "malformed request body", b.rid))
        ELSE Invoke(v, "SetSettings", BindSettings(b.req.body).v)

DeviceRead(b, op) ==
    LET a == Step(b, "authorize")
    IN  IF ~Authorized(a.idty) THEN Forbidden(a)
        ELSE Invoke(a, op, ZeroSettings)

DeviceWrite(b, op) ==
    LET a == Step(b, "authorize")
        v == Step(a, "bind")
    IN  IF ~Authorized(a.idty) THEN Forbidden(a)
        ELSE IF b.req.body.kind # "object"
        THEN Respond(v, RenderError(400, "malformed request body", b.rid))
        ELSE Invoke(v, op, ZeroSettings)

DeviceWrites == {"SetDeviceTwin", "UpdateDeviceTwin"}
DeviceReads == {"GetDevice", "GetDeviceTwin", "GetDeviceModules"}

(* The handler of a matched route, after the route group's middleware.     *)
RunHandler(b, h) ==
    CASE h = "Alive" -> Alive(b)
      [] h = "Health" -> Health(b)
      [] h = "GetSettings" -> GetSettings(b)
      [] h = "SetSettings" -> SetSettings(b)
      [] h \in DeviceWrites -> DeviceWrite(b, h)
      [] h \in DeviceReads -> DeviceRead(b, h)

(* router.ServeHTTP up to the response or the backend call: the dispatch,  *)
(* then the request id middleware, the group's middleware and the handler. *)
(* The engine's redirect runs none of them.                                *)
ServeHTTP(r, id) ==
    LET d  == Dispatch(r.method, r.path)
        b0 == [IdleConn EXCEPT !.req = r, !.handler = d.handler]
        b1 == [b0 EXCEPT !.rid = id, !.steps = <<"requestid">>]
    IN  IF d.kind = "redirect" THEN Respond(b0, RedirectTo(r.method, r.path))
        ELSE IF d.kind = "noroute" THEN NoRoute(b1)
        ELSE IF "identity" \in GroupMiddleware(d.group)
        THEN LET x == ExtractIdentity(r.auth)
                 b2 == Step(b1, "identity")
             IN  IF ~x.ok
                 THEN Respond(b2, RenderError(401, "Unauthorized", id))
                 ELSE RunHandler([b2 EXCEPT !.idty = x.idty], d.handler)
        ELSE RunHandler(b1, d.handler)

\* --------------------------------------------------------------- backend
(* The tenant a backend operation acts on: the tenant of the identity in   *)
(* the context the handler passes.                                         *)
AppTenantShared(call) == "t1"

AppTenant(call) == call.idty.tenant

(* The Settings value a client's PUT /settings body carries.               *)
Carried(body) ==
    [ConnectionString |->
        IF "connection_string" \in body.keys THEN body.cs ELSE << >>]

AtBackend(c, ops) ==
    /\ srv \in {"running", "draining"}
    /\ conns[c].pc = "backend"
    /\ conns[c].call.op \in ops

Init ==
    /\ conns = [c \in Conns |-> IdleConn]
    /\ store = [t \in Tenants |-> ZeroSettings]
    /\ lastPut = [t \in Tenants |-> [set |-> FALSE, v |-> ZeroSettings]]
    /\ srv = "running"
    /\ quit = ""
    /\ grace = 0

\* --------------------------------------------------------------- actions
(* The server accepts a request on an idle connection and serves it up to  *)
(* its response or its backend call.                                       *)
Receive(c, r) ==
    /\ srv = "running"
    /\ conns[c].pc = "idle"
    /\ \E id \in RequestId(r) : conns' = [conns EXCEPT ![c] = ServeHTTP(r, id)]
    /\ UNCHANGED <<store, lastPut, srv, quit, grace>>

(* The backend returns the tenant's stored Settings (the zero value when   *)
(* none was stored); the handler answers 200 with it.                      *)
GetSettingsOk(c) ==
    /\ AtBackend(c, {"GetSettings"})
    /\ conns' = [conns EXCEPT ![c] =
                   [Respond(conns[c], RenderSettings(store[AppTenant(conns[c].call)]))
                      EXCEPT !.seen = lastPut[conns[c].req.auth.claims.tenant]]]
    /\ UNCHANGED <<store, lastPut, srv, quit, grace>>

(* The backend stores the Settings for the tenant; the handler answers 204.*)
SetSettingsOk(c) ==
    /\ AtBackend(c, {"SetSettings"})
    /\ store' = [store EXCEPT ![AppTenant(conns[c].call)] = conns[c].call.settings]
    /\ lastPut' = [lastPut EXCEPT ![conns[c].req.auth.claims.tenant] =
                     [set |-> TRUE, v |-> Carried(conns[c].req.body)]]
    /\ conns' = [conns EXCEPT ![c] = Respond(@, WriteHeader(204))]
    /\ UNCHANGED <<srv, quit, grace>>

(* A backend operation of a management handler fails: 500.                 *)
BackendErr(c) ==
    /\ AtBackend(c, {"GetSettings", "SetSettings"} \cup DeviceReads \cup DeviceWrites)
    /\ conns' = [conns EXCEPT ![c] =
                   [Respond(conns[c],
                            RenderError(500, "Internal Server Error", conns[c].rid))
                      EXCEPT !.err = "internal error"]]
    /\ UNCHANGED <<store, lastPut, srv, quit, grace>>

(* A device operation succeeds: 200 with its result, 204 for a write.      *)
DeviceOk(c) ==
    /\ AtBackend(c, DeviceReads \cup DeviceWrites)
    /\ conns' = [conns EXCEPT ![c] =
                   Respond(@, IF @.call.op \in DeviceWrites
                              THEN WriteHeader(204) ELSE RenderJSON(200))]
    /\ UNCHANGED <<store, lastPut, srv, quit, grace>>

HealthReturnRetry(b, err) ==
    IF err # "" /\ Len(b.calls) < 2
    THEN [b EXCEPT !.calls = Append(@, "HealthCheck")]
    ELSE [Respond(b, IF err # "" THEN RenderHealthError(503, err)
                     ELSE WriteHeader(204))
            EXCEPT !.err = err, !.ctx = "done"]

(* Health after HealthCheck returned err ("" for nil): 204 or 503 with the *)
(* error's message; the deferred cancel ends the timeout context.          *)
HealthReturnAlwaysOk(b, err) ==
    [Respond(b, WriteHeader(204)) EXCEPT !.err = err, !.ctx = "done"]

HealthReturn(b, err) ==
    [Respond(b, IF err # "" THEN RenderHealthError(503, err)
                ELSE WriteHeader(204))
       EXCEPT !.err = err, !.ctx = "done"]

(* HealthCheck succeeds before the deadline.                               *)
HealthCheckOk(c) ==
    /\ AtBackend(c, {"HealthCheck"})
    /\ conns[c].elapsed < defaultTimeout
    /\ conns' = [conns EXCEPT ![c] = HealthReturn(@, "")]
    /\ UNCHANGED <<store, lastPut, srv, quit, grace>>

(* HealthCheck fails before the deadline.                                  *)
HealthCheckErr(c) ==
    /\ AtBackend(c, {"HealthCheck"})
    /\ conns[c].elapsed < defaultTimeout
    /\ conns' = [conns EXCEPT ![c] = HealthReturn(@, "error")]
    /\ UNCHANGED <<store, lastPut, srv, quit, grace>>

(* The timeout context expires: the pending HealthCheck is cancelled and   *)
(* returns the context's error.                                            *)
HealthDeadline(c) ==
    /\ AtBackend(c, {"HealthCheck"})
    /\ conns[c].elapsed = defaultTimeout
    /\ conns' = [conns EXCEPT ![c] = HealthReturn(@, "context deadline exceeded")]
    /\ UNCHANGED <<store, lastPut, srv, quit, grace>>

(* The response has been delivered and the connection is idle again.       *)
Close(c) ==
    /\ conns[c].pc \in {"done", "dropped"}
    /\ conns' = [conns EXCEPT ![c] = IdleConn]
    /\ UNCHANGED <<store, lastPut, srv, quit, grace>>

Waiting(c) ==
    srv \in {"running", "draining"} /\ conns[c].pc = "backend"
       /\ conns[c].call.op = "HealthCheck"

(* A second passes: every running timer advances.  No timer passes its     *)
(* deadline: the expiry is taken first.                                    *)
Tick ==
    /\ srv = "draining" \/ \E c \in Conns : Waiting(c)
    /\ srv = "draining" => grace < ShutdownGrace
    /\ \A c \in Conns : Waiting(c) => conns[c].elapsed < defaultTimeout
    /\ conns' = [c \in Conns |->
                   IF Waiting(c) THEN [conns[c] EXCEPT !.elapsed = @ + 1]
                   ELSE conns[c]]
    /\ grace' = IF srv = "draining" THEN grace + 1 ELSE grace
    /\ UNCHANGED <<store, lastPut, srv, quit>>

\* -------------------------------------------------------------- shutdown
(* SIGINT or SIGTERM arrives on the quit channel: InitAndRun calls         *)
(* srv.Shutdown with a context of ShutdownGrace seconds; the listener is   *)
(* closed.                                                                 *)
Signal(sig) ==
    /\ srv = "running"
    /\ srv' = "draining"
    /\ quit' = sig
    /\ grace' = 0
    /\ conns' = [c \in Conns |->
                   [conns[c] EXCEPT !.atSignal = (conns[c].pc = "backend")]]
    /\ UNCHANGED <<store, lastPut>>

(* Shutdown finds no request in flight and returns nil: the process exits. *)
ShutdownDone ==
    /\ srv = "draining"
    /\ \A c \in Conns : conns[c].pc # "backend"
    /\ srv' = "exited"
    /\ UNCHANGED <<conns, store, lastPut, quit, grace>>

ShutdownExpireAtOnce ==
    /\ srv = "draining"
    /\ srv' = "killed"
    /\ conns' = [c \in Conns |->
                   IF conns[c].pc = "backend"
                   THEN [conns[c] EXCEPT !.pc = "dropped"] ELSE conns[c]]
    /\ UNCHANGED <<store, lastPut, quit, grace>>

(* The context expires with requests still in flight or not yet seen idle: *)
(* Shutdown returns the context's error, l.Fatal ends the process and the  *)
(* requests in flight get no response.                                     *)
ShutdownExpire ==
    /\ srv = "draining"
    /\ grace = ShutdownGrace
    /\ srv' = "killed"
    /\ conns' = [c \in Conns |->
                   IF conns[c].pc = "backend"
                   THEN [conns[c] EXCEPT !.pc = "dropped"] ELSE conns[c]]
    /\ UNCHANGED <<store, lastPut, quit, grace>>

\* ---------------------------------------------------------------- inputs
User(t) == [sub |-> "829cbefb", tenant |-> t, user |-> TRUE, device |-> FALSE]
Device(t) == [sub |-> "829cbefb", tenant |-> t, user |-> FALSE, device |-> TRUE]
Neither(t) == [sub |-> "829cbefb", tenant |-> t, user |-> FALSE, device |-> FALSE]
Both(t) == [sub |-> "829cbefb", tenant |-> t, user |-> TRUE, device |-> TRUE]
NoSubject(t) == [sub |-> "", tenant |-> t, user |-> TRUE, device |-> FALSE]

Ascii(n) == Repeat(49, n)       \* n times "1"
TwoByte(n) == Repeat(233, n)    \* n times a character of two bytes

Half == MaxConnectionString \div 2

BasicBodies ==
    {NoBody, MalformedBody, SettingsBody(Ascii(ShortLen)),
     SettingsBody(Ascii(MaxConnectionString + 1))}

Auths ==
    {NoAuth, GarbageToken, Bearer(NoSubject("t1")), Bearer(User("t1")),
     Bearer(User("t2")), Bearer(Device("t1")), Bearer(Neither("t1")),
     Bearer(Both("t1"))}

Methods == {"GET", "PUT", "PATCH", "POST"}

Paths ==
    { <<APIURLInternal, "alive">>, <<APIURLInternal, "health">>,
      <<APIURLInternal, "alive", "">>,
      <<APIURLManagement, "settings">>, <<APIURLManagement, "settings", "">>,
      <<APIURLManagement, "device", "d1">>,
      <<APIURLManagement, "device", "d1", "twin">>,
      <<APIURLManagement, "device", "d1", "modules">>,
      <<APIURLManagement, "unknown">>, <<"/">> }

CorrelationIds == {"", "829cbefb-70e7"}

Request(m, p, a, b, i) ==
    [method |-> m, path |-> p, rid |-> i, auth |-> a, body |-> b]

(* Every request of the sample methods, paths, identities and bodies.      *)
Requests ==
    { Request(m, p, a, b, i) :
        m \in Methods, p \in Paths, a \in Auths, b \in BasicBodies,
        i \in CorrelationIds }

\* -------------------------------------------------------- specifications
(* One client connection, every request.                                   *)
Next ==
    \/ \E r \in Requests : Receive(1, r)
    \/ GetSettingsOk(1)
    \/ SetSettingsOk(1)
    \/ BackendErr(1)
    \/ DeviceOk(1)
    \/ HealthCheckOk(1)
    \/ HealthCheckErr(1)
    \/ HealthDeadline(1)
    \/ Tick
    \/ Close(1)

Spec == Init /\ [][Next]_vars

SettingsPath == <<APIURLManagement, "settings">>

(* A settings object that also names a tenant.                             *)
TenantBody(s, t) ==
    [SettingsBody(s) EXCEPT !.keys = {"connection_string", "tenant_id"},
                            !.tenant_id = t]

PutBodies ==
    { SettingsBody(<< >>),
      SettingsBody(Ascii(ShortLen)),
      SettingsBody(Ascii(MaxConnectionString)),
      SettingsBody(Ascii(MaxConnectionString + 1)),
      SettingsBody(TwoByte(Half)),
      SettingsBody(TwoByte(Half + 1)),
      [SettingsBody(<< >>) EXCEPT !.csType = "number"],
      TenantBody(Ascii(ShortLen), "t2") }

(* GET and PUT /settings by the users of the tenants.                      *)
SettingsRequests ==
    { Request("GET", SettingsPath, Bearer(User(t)), NoBody, "829cbefb-70e7") :
        t \in Tenants }
    \cup
    { Request("PUT", SettingsPath, Bearer(User("t1")), b, "829cbefb-70e7") :
        b \in PutBodies }
    \cup
    { Request("PUT", SettingsPath, Bearer(User("t2")), b, "829cbefb-70e7") :
        b \in {SettingsBody(Ascii(ShortLen + 1)),
               TenantBody(Ascii(ShortLen + 1), "t1")} }

(* Concurrent settings traffic of the tenants; the backend may fail.       *)
NextSettings ==
    \/ \E c \in Conns, r \in SettingsRequests : Receive(c, r)
    \/ \E c \in Conns : GetSettingsOk(c)
    \/ \E c \in Conns : SetSettingsOk(c)
    \/ \E c \in Conns : BackendErr(c)
    \/ \E c \in Conns : Close(c)

SpecSettings == Init /\ [][NextSettings]_vars

(* The same traffic against a stub backend, whose operations succeed.      *)
NextStub ==
    \/ \E c \in Conns, r \in SettingsRequests : Receive(c, r)
    \/ \E c \in Conns : GetSettingsOk(c)
    \/ \E c \in Conns : SetSettingsOk(c)
    \/ \E c \in Conns : Close(c)

SpecStub == Init /\ [][NextStub]_vars

HealthRequests ==
    { Request("GET", <<APIURLInternal, "health">>, a, NoBody, "829cbefb-70e7") :
        a \in {NoAuth, Bearer(Device("t1"))} }

(* Health probes; time passes, and a HealthCheck whose context expired     *)
(* returns.                                                                *)
NextHealth ==
    \/ \E c \in Conns, r \in HealthRequests : Receive(c, r)
    \/ \E c \in Conns : HealthCheckOk(c)
    \/ \E c \in Conns : HealthCheckErr(c)
    \/ \E c \in Conns : HealthDeadline(c)
    \/ Tick
    \/ \E c \in Conns : Close(c)

SpecHealth ==
    /\ Init /\ [][NextHealth]_vars
    /\ WF_vars(Tick)
    /\ \A c \in Conns : WF_vars(HealthDeadline(c))

DrainRequests ==
    { Request("GET", <<APIURLInternal, "alive">>, NoAuth, NoBody, ""),
      Request("GET", SettingsPath, Bearer(User("t1")), NoBody, "829cbefb-70e7"),
      Request("PUT", SettingsPath, Bearer(User("t1")),
              SettingsBody(Ascii(ShortLen)), "829cbefb-70e7") }

(* Requests in flight while a signal shuts the server down.                *)
NextShutdown ==
    \/ \E c \in Conns, r \in DrainRequests : Receive(c, r)
    \/ \E c \in Conns : GetSettingsOk(c)
    \/ \E c \in Conns : SetSettingsOk(c)
    \/ \E c \in Conns : BackendErr(c)
    \/ \E sig \in {"SIGINT", "SIGTERM"} : Signal(sig)
    \/ Tick
    \/ ShutdownDone
    \/ ShutdownExpire
    \/ \E c \in Conns : Close(c)

SpecShutdown == Init /\ [][NextShutdown]_vars

\* ---------------------------------------------------------------- claims
(* The management routes, by method and path pattern.                      *)
ManagementRoutes ==
    { <<"GET", <<APIURLManagement, "settings">> >>,
      <<"PUT", <<APIURLManagement, "settings">> >>,
      <<"GET", <<APIURLManagement, "device", ":id">> >>,
      <<"GET", <<APIURLManagement, "device", ":id", "twin">> >>,
      <<"PUT", <<APIURLManagement, "device", ":id", "twin">> >>,
      <<"PATCH", <<APIURLManagement, "device", ":id", "twin">> >>,
      <<"GET", <<APIURLManagement, "device", ":id", "modules">> >> }

InternalRoutes ==
    { <<"GET", <<APIURLInternal, "alive">> >>,
      <<"GET", <<APIURLInternal, "health">> >> }

OnRoute(r, routes) ==
    \E rt \in routes : rt[1] = r.method /\ Match(rt[2], r.path)

(* The bearer token of the request decodes into an identity.               *)
HasIdentity(r) ==
    r.auth.kind = "bearer" /\ r.auth.ok /\ r.auth.claims.sub # ""

(* The response is the error envelope {error, request_id} with the message *)
(* and the request's correlation id: the inbound header's value when the   *)
(* request has one, the generated id otherwise.                            *)
Envelope(k, status, msg) ==
    /\ k.resp.status = status
    /\ k.resp.body = "json"
    /\ k.resp.keys = {"error", "request_id"}
    /\ k.resp.error = msg
    /\ k.resp.request_id = k.rid
    /\ k.rid # ""
    /\ k.req.rid # "" => k.resp.request_id = k.req.rid

(* C1: a request to a management route whose decoded identity is no user's *)
(* is answered 403 "missing user authentication" with the correlation id,  *)
(* whatever its body, and no backend operation is invoked for it.          *)
C1_NonUserForbidden ==
    \A c \in Conns :
        LET k == conns[c]
        IN  (k.pc # "idle" /\ OnRoute(k.req, ManagementRoutes)
                /\ HasIdentity(k.req) /\ ~k.req.auth.claims.user)
            => /\ k.pc = "done"
               /\ Envelope(k, 403, "missing user authentication")
               /\ k.calls = << >>

(* A device's token on PUT /settings with a malformed body was refused, as *)
(* was a token with neither flag on a device route.                        *)
C1_Witness ==
    \E c \in Conns :
        /\ conns[c].pc = "done"
        /\ conns[c].resp.status = 403
        /\ conns[c].req.auth.claims.device
        /\ conns[c].req.method = "PUT"
        /\ conns[c].req.path = <<APIURLManagement, "settings">>
        /\ conns[c].req.body.kind = "malformed"
        /\ conns[c].req.rid = ""

(* C2: a request to a management route without a bearer token that decodes *)
(* into an identity is answered 401 with the error envelope by the         *)
(* identity middleware; the handler's authorization check and payload      *)
(* binding do not run and no backend operation is invoked.                 *)
C2_NoIdentityUnauthorized ==
    \A c \in Conns :
        LET k == conns[c]
        IN  (k.pc # "idle" /\ OnRoute(k.req, ManagementRoutes) /\ ~HasIdentity(k.req))
            => /\ k.pc = "done"
               /\ k.resp.status = 401
               /\ k.resp.body = "json"
               /\ k.resp.keys = {"error", "request_id"}
               /\ k.resp.error # ""
               /\ k.resp.request_id = k.rid
               /\ k.req.rid # "" => k.resp.request_id = k.req.rid
               /\ k.steps = <<"requestid", "identity">>
               /\ k.idty = NoIdentity
               /\ k.calls = << >>

(* PUT /settings with a valid body and no Authorization header got 401.    *)
C2_Witness ==
    \E c \in Conns :
        /\ conns[c].pc = "done"
        /\ conns[c].resp.status = 401
        /\ conns[c].req.auth.kind = "absent"
        /\ conns[c].req.method = "PUT"
        /\ conns[c].req.path = <<APIURLManagement, "settings">>
        /\ conns[c].req.body = SettingsBody(Ascii(ShortLen))

(* PUT /settings by a user, with a JSON object for a body.                 *)
UserPut(k) ==
    /\ k.req.method = "PUT"
    /\ k.req.path = <<APIURLManagement, "settings">>
    /\ HasIdentity(k.req) /\ k.req.auth.claims.user
    /\ k.req.body.kind = "object"
    /\ k.req.body.csType = "string"

UserGet(k) ==
    /\ k.req.method = "GET"
    /\ k.req.path = <<APIURLManagement, "settings">>
    /\ HasIdentity(k.req) /\ k.req.auth.claims.user

(* The request sits on the connection in this state or the next.           *)
TooLong(k) ==
    UserPut(k) /\ RuneCount(Carried(k.req.body).ConnectionString) > MaxConnectionString

(* C3: PUT /settings by a user with a connection_string of more than 2048  *)
(* characters is answered 400 "malformed request body" in the error        *)
(* envelope, SetSettings is never invoked and the steps of that request    *)
(* leave the stored settings unchanged.                                    *)
C3_TooLongRejected ==
    /\ [](\A c \in Conns :
            (conns[c].pc # "idle" /\ TooLong(conns[c]))
            => /\ conns[c].pc = "done"
               /\ Envelope(conns[c], 400, "malformed request body")
               /\ conns[c].calls = << >>)
    /\ [][\A c \in Conns :
            (conns'[c] # conns[c] /\ (TooLong(conns[c]) \/ TooLong(conns'[c])))
            => store' = store]_vars

(* A user's PUT of 2049 characters was refused while the tenant had        *)
(* settings stored.                                                        *)
C3_Witness ==
    \E c \in Conns :
        /\ conns[c].pc = "done"
        /\ conns[c].resp.status = 400
        /\ conns[c].req.body = SettingsBody(Ascii(MaxConnectionString + 1))
        /\ store[conns[c].req.auth.claims.tenant] # ZeroSettings

(* What C4 says of a request: SetSettings is invoked, once, and the answer *)
(* is 204 with no body exactly when the call succeeded, 500 with an error  *)
(* envelope when it failed.                                                *)
Stored(k) ==
    /\ k.pc \in {"backend", "done"}
    /\ k.calls = <<"SetSettings">>
    /\ k.pc = "done" =>
          /\ k.resp.status = 204 <=> k.err = ""
          /\ k.err = "" => k.resp.body = "none"
          /\ k.err # "" => /\ k.resp.status = 500
                           /\ k.resp.keys = {"error", "request_id"}
                           /\ k.resp.error # ""
                           /\ k.resp.request_id = k.rid

ResponseSettings(resp) ==
    [ConnectionString |->
        IF "connection_string" \in resp.keys THEN resp.cs ELSE << >>]

(* C5: against a backend whose operations succeed, GET /settings by a user *)
(* is answered 200 with exactly the value of the last PUT /settings        *)
(* accepted for the user's tenant, and with the empty Settings object when *)
(* none was ever accepted; never with an error.                            *)
C5_RoundTrip ==
    \A c \in Conns :
        (conns[c].pc = "done" /\ UserGet(conns[c]))
        => /\ conns[c].resp.status = 200
           /\ conns[c].resp.body = "json"
           /\ conns[c].resp.keys \subseteq {"connection_string"}
           /\ ResponseSettings(conns[c].resp) = conns[c].seen.v
           /\ ~conns[c].seen.set => conns[c].resp.keys = {}

(* A GET returned the 1024 two-byte characters a PUT had stored, while the *)
(* other tenant's GET returned the empty object.                           *)
C5_Witness ==
    \E c, d \in Conns :
        /\ conns[c].pc = "done" /\ UserGet(conns[c])
        /\ conns[c].seen.set
        /\ conns[c].resp.cs = TwoByte(Half)
        /\ conns[d].pc = "done" /\ UserGet(conns[d])
        /\ ~conns[d].seen.set
        /\ conns[d].resp.keys = {}

(* C6: the tenant a settings operation acts on is the tenant of the        *)
(* request's identity; the stored settings of a tenant change only in the  *)
(* step that completes a PUT /settings of a user of that tenant, whatever  *)
(* tenant a payload names; and a GET /settings returns the last value      *)
(* accepted for its own tenant.                                            *)
C6_TenantIsolation ==
    /\ [](\A c \in Conns :
            /\ (conns[c].pc = "backend"
                  /\ conns[c].call.op \in {"GetSettings", "SetSettings"})
               => AppTenant(conns[c].call) = conns[c].req.auth.claims.tenant
            /\ (conns[c].pc = "done" /\ UserGet(conns[c]) /\ conns[c].err = "")
               => ResponseSettings(conns[c].resp) = conns[c].seen.v)
    /\ [][\A t \in Tenants :
            store'[t] # store[t]
            => \E c \in Conns :
                  /\ conns[c].pc = "backend"
                  /\ conns[c].call.op = "SetSettings"
                  /\ conns'[c].pc = "done"
                  /\ conns[c].req.auth.claims.tenant = t]_vars

(* A user of t1 had a payload naming t2 accepted while a request of t2 was *)
(* in flight, and each tenant holds its own value.                         *)
C6_Witness ==
    \E c, d \in Conns :
        /\ conns[c].pc = "done" /\ conns[c].resp.status = 204
        /\ conns[c].req.auth.claims.tenant = "t1"
        /\ conns[c].req.body.tenant_id = "t2"
        /\ conns[d].pc = "backend"
        /\ conns[d].req.auth.claims.tenant = "t2"
        /\ store["t1"].ConnectionString = Ascii(ShortLen)
        /\ store["t2"].ConnectionString = Ascii(ShortLen + 1)

HealthProbe(k) ==
    k.req.method = "GET" /\ k.req.path = <<APIURLInternal, "health">>

(* C7: GET /health needs no identity; it is answered 204 with no body when *)
(* HealthCheck succeeds within the 10 seconds, and 503 carrying the        *)
(* failure's message when HealthCheck fails or the 10 seconds expire       *)
(* first, the call's context being cancelled; and every health request     *)
(* eventually gets its response.                                           *)
C7_Health ==
    /\ [](\A c \in Conns :
            LET k == conns[c]
            IN  /\ (k.pc # "idle" /\ HealthProbe(k))
                   => /\ k.steps = <<"requestid">>
                      /\ k.calls = <<"HealthCheck">>
                      /\ k.elapsed <= defaultTimeout
                /\ (k.pc = "done" /\ HealthProbe(k))
                   => /\ k.ctx = "done"
                      /\ k.err = "" =>
                            /\ k.elapsed < defaultTimeout
                            /\ k.resp.status = 204
                            /\ k.resp.body = "none"
                      /\ k.err # "" =>
                            /\ k.resp.status = 503
                            /\ k.resp.error = k.err
                      /\ k.elapsed = defaultTimeout =>
                            /\ k.resp.status = 503
                            /\ k.resp.error = "context deadline exceeded")
    /\ \A c \in Conns :
          (conns[c].pc = "backend" /\ HealthProbe(conns[c]))
             ~> (conns[c].pc = "done" /\ HealthProbe(conns[c]))

(* One probe without any Authorization header got 204 while another timed  *)
(* out with 503.                                                           *)
C7_Witness ==
    \E c, d \in Conns :
        /\ conns[c].pc = "done" /\ HealthProbe(conns[c])
        /\ conns[c].req.auth.kind = "absent"
        /\ conns[c].resp.status = 204
        /\ conns[d].pc = "done" /\ HealthProbe(conns[d])
        /\ conns[d].elapsed = defaultTimeout
        /\ conns[d].resp.status = 503

(* C8: every error response, of whatever layer, is the envelope            *)
(* {error, request_id} with the request's correlation id.                  *)
C8_Original ==
    \A c \in Conns :
        (conns[c].pc = "done" /\ conns[c].resp.status >= 400)
        => /\ conns[c].resp.body = "json"
           /\ conns[c].resp.keys = {"error", "request_id"}
           /\ conns[c].resp.request_id = conns[c].rid
           /\ conns[c].rid # ""

(* No route of the request's method matches its path.                      *)
Unmatched(r) == ~OnRoute(r, ManagementRoutes \cup InternalRoutes)

(* The path is that of a route of the request's method with a slash added. *)
SlashAdded(r) ==
    /\ Len(r.path) > 1
    /\ r.path[Len(r.path)] = ""
    /\ \E rt \in ManagementRoutes \cup InternalRoutes :
          rt[1] = r.method /\ Match(rt[2], SubSeq(r.path, 1, Len(r.path) - 1))

NotFound(k) ==
    /\ k.pc = "done"
    /\ Envelope(k, 404, "not found")
    /\ "identity" \notin {k.steps[i] : i \in 1..Len(k.steps)}
    /\ k.idty = NoIdentity
    /\ k.calls = << >>

C10_OrderlyDrain ==
    /\ [](\A c \in Conns :
            /\ conns[c].pc = "dropped" => (srv = "killed" /\ conns[c].atSignal)
            /\ srv = "killed" => grace = ShutdownGrace
            /\ grace <= ShutdownGrace
            /\ srv # "running" <=> quit \in {"SIGINT", "SIGTERM"})
    /\ [][\A c \in Conns :
            /\ (conns[c].pc = "idle" /\ conns'[c].pc # "idle")
               => (srv = "running" /\ srv' = "running")
            /\ (conns[c].pc = "backend" /\ conns'[c].pc # "backend"
                  /\ srv' # "killed")
               => (conns'[c].pc = "done" /\ conns'[c].resp.status # 0)
            /\ (conns[c].pc = "backend" /\ conns'[c].pc = "dropped")
               => (srv = "draining" /\ grace = ShutdownGrace)]_vars

(* A request in flight when SIGTERM arrived got its response three seconds *)
(* into the grace period, and the server then exited.                      *)
C10_Witness ==
    \E c \in Conns :
        /\ srv = "exited" /\ quit = "SIGTERM"
        /\ grace = 3
        /\ conns[c].atSignal
        /\ conns[c].pc = "done"
        /\ conns[c].resp.status = 200

(* C11: a request causes at most one backend call: a handler invokes at    *)
(* most one backend operation, the call is not made again once it has      *)
(* returned, failed or not, and Alive and NoRoute invoke none.             *)
C11_AtMostOneCall ==
    /\ [](\A c \in Conns :
            LET k == conns[c]
            IN  /\ Len(k.calls) <= 1
                /\ (k.pc = "done" /\ k.err # "") => Len(k.calls) = 1
                /\ (k.pc # "idle" /\ k.req.method = "GET"
                      /\ k.req.path = <<APIURLInternal, "alive">>)
                   => (k.pc = "done" /\ k.calls = << >>)
                /\ (k.pc # "idle" /\ Unmatched(k.req))
                   => (k.pc = "done" /\ k.calls = << >>))
    /\ [][\A c \in Conns :
            /\ (conns[c].pc # "idle" /\ conns'[c].pc # "idle")
               => conns'[c].calls = conns[c].calls
            /\ (conns[c].pc = "backend" /\ conns'[c] # conns[c]
                  /\ conns'[c].elapsed = conns[c].elapsed)
               => conns'[c].pc \in {"done", "dropped"}]_vars

(* A PUT /settings whose SetSettings failed was answered 500 after that    *)
(* one call.                                                               *)
C11_Witness ==
    \E c \in Conns :
        /\ conns[c].pc = "done"
        /\ conns[c].resp.status = 500
        /\ conns[c].err # ""
        /\ conns[c].calls = <<"SetSettings">>
====
